---- MODULE Spec2Model ----
(***************************************************************************)
(* Model of MicroBatchProcessor (src/src/index.ts): a queue of pending     *)
(* jobs, one batch timer, a shutdown flag, and the batch processor calls   *)
(* the coordinator has made.  One action per entry point of the event      *)
(* loop: submitJob, the timer callback, the settlement of a processor      *)
(* call (the continuation of processBatch after its await) and shutdown.   *)
(***************************************************************************)
EXTENDS Integers, Sequences, FiniteSets, TLC

\* ---- bounds of the model ------------------------------------------------
MaxJobs == 3
MaxBatchSize == 3
MaxShutdowns == 2

\* ---- types (src/unnamed/part_000) ----------------------------------------
\* Job<T>: id and payload, both supplied by the caller and opaque to the
\* coordinator.  The payload of the h-th submission is a value of its own;
\* the callers alternate between two ids, so that neighbours differ and ids
\* repeat (the coordinator does not require them to be unique).
IdOf(h) == IF h % 2 = 1 THEN "a" ELSE "b"
PayloadOf(h) == 100 + h
Job(h) == [id |-> IdOf(h), payload |-> PayloadOf(h)]

\* The values R of a processor result are opaque to the coordinator: the
\* output of call c at position i is a value of its own.
OutputAt(c, i) == 10 * c + i

\* Absent optional fields of a JobResult.
NoResult == 0
NoError == "none"

\* JobResult<R>: id, result?, error?
JobResult(id, result, error) == [id |-> id, result |-> result, error |-> error]

\* Values a failing processor call can be rejected with or throw: an Error
\* instance, or a value that is not an Error.
Failures == {[isError |-> TRUE, message |-> "Processing error"],
             [isError |-> FALSE, message |-> "raw value"]}

NoFailure == [isError |-> FALSE, message |-> "none"]

\* The message of the Error submitJob throws once shutdown has begun.
ShutdownError == "Cannot submit job - the system is shutting down."

VARIABLES
    batchSize,       \* this.batchSize, fixed by the constructor
    pendingJobs,     \* this.pendingJobs: sequence of InternalJob
    isShuttingDown,  \* this.isShuttingDown
    batchTimer,      \* this.batchTimer: 0 is null, otherwise the timer handle
    scheduled,       \* timers of the event loop that are set, not cleared, not fired
    accepted,        \* number of InternalJob objects created so far
    calls,           \* every batchProcessor.process invocation, in order
    resolutions,     \* per InternalJob: the JobResults its resolve was called with
    shutdowns,       \* every shutdown() call: what it awaits, whether its promise resolved
    thrown           \* the error the last submitJob call threw to its caller, if any

vars == <<batchSize, pendingJobs, isShuttingDown, batchTimer, scheduled,
          accepted, calls, resolutions, shutdowns, thrown>>

Handles == 1..MaxJobs

Min(a, b) == IF a < b THEN a ELSE b

\* ---- helpers --------------------------------------------------------------

\* Array.prototype.splice(0, n): the removed prefix and what is left.
SpliceRemoved(q, n) == SubSeq(q, 1, Min(n, Len(q)))
SpliceRest(q, n) == SubSeq(q, Min(n, Len(q)) + 1, Len(q))

\* error instanceof Error ? error : new Error('Unknown error')
ErrorOf(f) == IF f.isError THEN f.message ELSE "Unknown error"

\* The handles of the jobs of a batch.
HandlesOf(jobs) == {jobs[i].h : i \in 1..Len(jobs)}

\* Position of handle h in a batch (0 when absent).
PosOf(jobs, h) == IF \E i \in 1..Len(jobs) : jobs[i].h = h
                  THEN CHOOSE i \in 1..Len(jobs) : jobs[i].h = h
                  ELSE 0

\* Variant of ResolveAllWithError: only the first job of the batch is
\* resolved with the error.
ResolveAllWithError_FirstOnly(res, jobs, msg) ==
    [h \in Handles |->
        IF h \in HandlesOf(jobs) /\ PosOf(jobs, h) = 1
        THEN Append(res[h], JobResult(jobs[1].id, NoResult, msg))
        ELSE res[h]]

\* catch block: every job of the batch is resolved with the error.
ResolveAllWithError(res, jobs, msg) ==
    [h \in Handles |->
        IF h \in HandlesOf(jobs)
        THEN Append(res[h], JobResult(jobs[PosOf(jobs, h)].id, NoResult, msg))
        ELSE res[h]]

\* Variant of ResolveWithResults: every job is given the first result.
ResolveWithResults_FirstResult(res, jobs, results) ==
    [h \in Handles |->
        IF h \in HandlesOf(jobs) /\ PosOf(jobs, h) <= Len(results)
        THEN Append(res[h], JobResult(jobs[PosOf(jobs, h)].id, results[1], NoError))
        ELSE res[h]]

\* results.forEach: position i of the results resolves job i of the batch,
\* for the positions that have a job.
ResolveWithResults(res, jobs, results) ==
    [h \in Handles |->
        IF h \in HandlesOf(jobs) /\ PosOf(jobs, h) <= Len(results)
        THEN Append(res[h], JobResult(jobs[PosOf(jobs, h)].id,
                                      results[PosOf(jobs, h)], NoError))
        ELSE res[h]]

\* The try block after the await: forEach over the results; a result at a
\* position past the end of the batch reads resolve of undefined, which
\* throws a TypeError that the catch block handles.
ResolveSettledOk(res, jobs, results) ==
    IF Len(results) > Len(jobs)
    THEN ResolveAllWithError(ResolveWithResults(res, jobs, results), jobs, "TypeError")
    ELSE ResolveWithResults(res, jobs, results)

\* const internalJob = { ...job, resolve }: the job with its completion
\* handle; h names the handle.
InternalJob(h, job) == [h |-> h, id |-> job.id, payload |-> job.payload]

\* Variant of Push: the job is put at the front of the queue.
Push_Front(q, job) == <<job>> \o q

\* this.pendingJobs.push(internalJob)
Push(q, job) == Append(q, job)

\* ---- the coordinator --------------------------------------------------------

Init ==
    /\ batchSize \in 1..MaxBatchSize
    /\ pendingJobs = <<>>
    /\ isShuttingDown = FALSE
    /\ batchTimer = 0
    /\ scheduled = {}
    /\ accepted = 0
    /\ calls = <<>>
    /\ resolutions = [h \in Handles |-> <<>>]
    /\ shutdowns = <<>>
    /\ thrown = NoError

\* Variant of ClearBatchTimer: the handle is dropped without clearTimeout.
ClearBatchTimer_NoClearTimeout(timer, sched) == sched

\* clearBatchTimer, as the timers left scheduled in the event loop.
ClearBatchTimer(timer, sched) == IF timer # 0 THEN sched \ {timer} ELSE sched

\* jobsToProcess.map((job) => job.payload)
PayloadsOf(jobs) == [i \in 1..Len(jobs) |-> jobs[i].payload]

\* One batchProcessor.process invocation: the batch it was made for, the
\* payloads it received, what started the cycle, and how the call ended
\* (status "pending" while awaited; results or failure once it ended).
Call(jobs, trigger, status, f) ==
    [jobs |-> jobs, payloads |-> PayloadsOf(jobs), trigger |-> trigger,
     status |-> status, results |-> <<>>, failure |-> f]

\* What the invocation of batchProcessor.process does before processBatch
\* suspends: it returns a promise (NoFailure), or throws a value.
Invocations == {NoFailure} \cup Failures

\* Variant of ProcessBatch: the batch timer is left as it is.
ProcessBatch_KeepsTimer(queue, timer, sched, trigger, f) ==
    LET jobsToProcess == SpliceRemoved(queue, batchSize) IN
    /\ batchTimer' = timer
    /\ scheduled' = sched
    /\ pendingJobs' = SpliceRest(queue, batchSize)
    /\ IF f # NoFailure
       THEN /\ calls' = Append(calls, Call(jobsToProcess, trigger, "threw", f))
            /\ resolutions' = ResolveAllWithError(resolutions, jobsToProcess, ErrorOf(f))
       ELSE /\ calls' = Append(calls, Call(jobsToProcess, trigger, "pending", NoFailure))
            /\ resolutions' = resolutions

\* processBatch up to its await: clear the timer, splice the batch off the
\* queue, invoke the processor.  When the processor throws f synchronously
\* the catch block runs in the same turn; otherwise the call is awaited.
\* queue, timer, sched: the state processBatch starts in.
ProcessBatch(queue, timer, sched, trigger, f) ==
    LET jobsToProcess == SpliceRemoved(queue, batchSize) IN
    /\ batchTimer' = 0
    /\ scheduled' = ClearBatchTimer(timer, sched)
    /\ pendingJobs' = SpliceRest(queue, batchSize)
    /\ IF f # NoFailure
       THEN /\ calls' = Append(calls, Call(jobsToProcess, trigger, "threw", f))
            /\ resolutions' = ResolveAllWithError(resolutions, jobsToProcess, ErrorOf(f))
       ELSE /\ calls' = Append(calls, Call(jobsToProcess, trigger, "pending", NoFailure))
            /\ resolutions' = resolutions

\* Variant of SubmitRejected: the shutdown flag is not checked, the job is
\* queued.
SubmitRejected_Queues(job) ==
    /\ isShuttingDown
    /\ accepted < MaxJobs
    /\ accepted' = accepted + 1
    /\ pendingJobs' = Push(pendingJobs, InternalJob(accepted + 1, job))
    /\ UNCHANGED <<batchSize, isShuttingDown, batchTimer, scheduled, calls,
                   resolutions, shutdowns, thrown>>

\* submitJob after shutdown began: throws, nothing else happens.
SubmitRejected(job) ==
    /\ isShuttingDown
    /\ thrown' = ShutdownError
    /\ UNCHANGED <<batchSize, pendingJobs, isShuttingDown, batchTimer, scheduled,
                   accepted, calls, resolutions, shutdowns>>

\* Variant of SubmitAccepted: the batch is dispatched only once the queue
\* is longer than batchSize.
SubmitAccepted_StrictThreshold(job, f) ==
    /\ ~isShuttingDown
    /\ accepted < MaxJobs
    /\ LET h == accepted + 1
           queue == Push(pendingJobs, InternalJob(h, job))
       IN /\ accepted' = h
          /\ IF Len(queue) > batchSize
             THEN /\ ProcessBatch(queue, batchTimer, scheduled, "size", f)
             ELSE /\ pendingJobs' = queue
                  /\ IF batchTimer = 0
                     THEN batchTimer' = h /\ scheduled' = scheduled \cup {h}
                     ELSE UNCHANGED <<batchTimer, scheduled>>
                  /\ UNCHANGED <<calls, resolutions>>
    /\ thrown' = NoError
    /\ UNCHANGED <<batchSize, isShuttingDown, shutdowns>>

\* Variant of SubmitAccepted: a timer is set at every submission below the
\* threshold, whether or not one is armed.
SubmitAccepted_AlwaysArms(job, f) ==
    /\ ~isShuttingDown
    /\ accepted < MaxJobs
    /\ LET h == accepted + 1
           queue == Push(pendingJobs, InternalJob(h, job))
       IN /\ accepted' = h
          /\ IF Len(queue) >= batchSize
             THEN /\ ProcessBatch(queue, batchTimer, scheduled, "size", f)
             ELSE /\ pendingJobs' = queue
                  /\ batchTimer' = h
                  /\ scheduled' = scheduled \cup {h}
                  /\ UNCHANGED <<calls, resolutions>>
    /\ thrown' = NoError
    /\ UNCHANGED <<batchSize, isShuttingDown, shutdowns>>

\* submitJob: push, then dispatch on the size threshold or arm the timer.
SubmitAccepted(job, f) ==
    /\ ~isShuttingDown
    /\ accepted < MaxJobs
    /\ LET h == accepted + 1
           queue == Push(pendingJobs, InternalJob(h, job))
       IN /\ accepted' = h
          /\ IF Len(queue) >= batchSize
             THEN /\ ProcessBatch(queue, batchTimer, scheduled, "size", f)
             ELSE /\ pendingJobs' = queue
                  /\ IF batchTimer = 0
                     THEN batchTimer' = h /\ scheduled' = scheduled \cup {h}
                     ELSE UNCHANGED <<batchTimer, scheduled>>
                  /\ UNCHANGED <<calls, resolutions>>
    /\ thrown' = NoError
    /\ UNCHANGED <<batchSize, isShuttingDown, shutdowns>>

SubmitJob ==
    LET job == Job(accepted + 1) IN
        \/ SubmitRejected(job)
        \/ \E f \in Invocations : SubmitAccepted(job, f)

\* The timer callback: () => this.processBatch()
TimerFire ==
    \E t \in scheduled, f \in Invocations :
        /\ ProcessBatch(pendingJobs, batchTimer, scheduled \ {t}, "timer", f)
        /\ UNCHANGED <<batchSize, isShuttingDown, accepted, shutdowns, thrown>>

\* The result sequences call c on n payloads can be fulfilled with: of the
\* contract's length n, one shorter, one longer.
ResultSeqs(c, n) ==
    {[i \in 1..k |-> OutputAt(c, i)] : k \in {m \in {n - 1, n, n + 1} : m >= 0}}

\* A shutdown() call awaiting processor call c resumes when that cycle ends.
ResumeShutdowns(c) ==
    [i \in 1..Len(shutdowns) |->
        IF shutdowns[i].waitsFor = c
        THEN [shutdowns[i] EXCEPT !.resolved = TRUE]
        ELSE shutdowns[i]]

\* The awaited processor call c is fulfilled with results: the rest of the try block.
SettleOk(c, results) ==
    /\ calls[c].status = "pending"
    /\ calls' = [calls EXCEPT ![c].status = "ok", ![c].results = results]
    /\ resolutions' = ResolveSettledOk(resolutions, calls[c].jobs, results)
    /\ shutdowns' = ResumeShutdowns(c)
    /\ UNCHANGED <<batchSize, pendingJobs, isShuttingDown, batchTimer, scheduled,
                   accepted, thrown>>

\* Variant of SettleFailed: no catch block; the rejection ends processBatch,
\* no job is resolved and whoever awaits the cycle is not resumed.
SettleFailed_NoCatch(c, f) ==
    /\ calls[c].status = "pending"
    /\ calls' = [calls EXCEPT ![c].status = "failed", ![c].failure = f]
    /\ UNCHANGED <<batchSize, pendingJobs, isShuttingDown, batchTimer, scheduled,
                   accepted, resolutions, shutdowns, thrown>>

\* The awaited processor call c is rejected with f: the catch block.
SettleFailed(c, f) ==
    /\ calls[c].status = "pending"
    /\ calls' = [calls EXCEPT ![c].status = "failed", ![c].failure = f]
    /\ resolutions' = ResolveAllWithError(resolutions, calls[c].jobs, ErrorOf(f))
    /\ shutdowns' = ResumeShutdowns(c)
    /\ UNCHANGED <<batchSize, pendingJobs, isShuttingDown, batchTimer, scheduled,
                   accepted, thrown>>

ProcessorSettle ==
    \E c \in 1..Len(calls) :
        \/ \E results \in ResultSeqs(c, Len(calls[c].jobs)) : SettleOk(c, results)
        \/ \E f \in Failures : SettleFailed(c, f)

\* Variant of Shutdown: the queued jobs are not drained.
Shutdown_SkipsDrain ==
    /\ Len(shutdowns) < MaxShutdowns
    /\ isShuttingDown' = TRUE
    /\ batchTimer' = 0
    /\ scheduled' = ClearBatchTimer(batchTimer, scheduled)
    /\ shutdowns' = Append(shutdowns, [waitsFor |-> 0, resolved |-> TRUE])
    /\ UNCHANGED <<batchSize, pendingJobs, accepted, calls, resolutions, thrown>>

\* Variant of Shutdown: processBatch is called whether or not jobs are queued.
Shutdown_AlwaysDrains ==
    /\ Len(shutdowns) < MaxShutdowns
    /\ isShuttingDown' = TRUE
    /\ \E f \in Invocations :
          /\ ProcessBatch(pendingJobs, 0, ClearBatchTimer(batchTimer, scheduled),
                          "shutdown", f)
          /\ shutdowns' = Append(shutdowns, [waitsFor |-> Len(calls) + 1,
                                             resolved |-> (f # NoFailure)])
    /\ UNCHANGED <<batchSize, accepted, thrown>>

\* shutdown(): set the flag, clear the timer, drain with one processBatch.
Shutdown ==
    /\ Len(shutdowns) < MaxShutdowns
    /\ isShuttingDown' = TRUE
    /\ IF Len(pendingJobs) > 0
       THEN \E f \in Invocations :
              /\ ProcessBatch(pendingJobs, 0, ClearBatchTimer(batchTimer, scheduled),
                              "shutdown", f)
              /\ shutdowns' = Append(shutdowns, [waitsFor |-> Len(calls) + 1,
                                                 resolved |-> (f # NoFailure)])
       ELSE /\ batchTimer' = 0
            /\ scheduled' = ClearBatchTimer(batchTimer, scheduled)
            /\ shutdowns' = Append(shutdowns, [waitsFor |-> 0, resolved |-> TRUE])
            /\ UNCHANGED <<pendingJobs, calls, resolutions>>
    /\ UNCHANGED <<batchSize, accepted, thrown>>

Next == SubmitJob \/ TimerFire \/ ProcessorSettle \/ Shutdown

Spec == Init /\ [][Next]_vars

TypeOK ==
    /\ batchSize \in 1..MaxBatchSize
    /\ isShuttingDown \in BOOLEAN
    /\ batchTimer \in 0..MaxJobs
    /\ scheduled \subseteq Handles
    /\ accepted \in 0..MaxJobs
    /\ Len(shutdowns) <= MaxShutdowns

\* ---- vocabulary of the properties -------------------------------------------

Last(q) == q[Len(q)]

\* Handles of the jobs submitJob has accepted so far.
Accepted == 1..accepted

Resolved(h) == resolutions[h] # <<>>

\* Calls the coordinator still awaits.
PendingCalls == {c \in 1..Len(calls) : calls[c].status = "pending"}

\* Nothing is left to happen: no queued job, no timer set, no awaited call.
Quiescent == pendingJobs = <<>> /\ scheduled = {} /\ PendingCalls = {}

\* ---- C1 -----------------------------------------------------------------------
\* C1: when the promise of a shutdown() call is resolved, the queue is empty
\* and every job accepted before that call has had its handle resolved, also
\* when an earlier size- or timer-triggered batch is still awaited.
\* (No job is accepted once shutdown was called, so the accepted jobs are the
\* jobs accepted before the call.)
C1_ShutdownResolvedAllResolved ==
    \A s \in 1..Len(shutdowns) :
        shutdowns[s].resolved =>
            /\ pendingJobs = <<>>
            /\ \A h \in Accepted : Resolved(h)

\* ---- C2 -----------------------------------------------------------------------
\* C2: the completion handle of every accepted job is invoked at most once,
\* and the JobResult it is given carries the id of that job.
C2_AtMostOnceMatchingId ==
    \A h \in Handles :
        /\ Len(resolutions[h]) <= 1
        /\ \A k \in 1..Len(resolutions[h]) : resolutions[h][k].id = IdOf(h)

\* ---- C3 -----------------------------------------------------------------------
\* C3: every accepted job is eventually resolved, given that armed timers fire
\* and processor calls settle.  Stated on the runs that have come to rest:
\* once no job is queued, no timer is set and no call is awaited, nothing can
\* resolve a job any more, so every accepted job must already be resolved.
C3_NoJobLeftUnresolved ==
    Quiescent => \A h \in Accepted : Resolved(h)

\* ---- C4 -----------------------------------------------------------------------
\* C4: once shutdown() has been called the flag stays set, and every step
\* taken from then on leaves the queue, the timer and the accepted jobs as
\* they are and starts no processor call; a submitJob call throws the
\* shutdown error and changes nothing else.
C4_RejectedAfterShutdown ==
    [][isShuttingDown =>
          /\ isShuttingDown'
          /\ accepted' = accepted
          /\ pendingJobs' = pendingJobs
          /\ batchTimer' = 0
          /\ scheduled' = {}
          /\ Len(calls') = Len(calls)
          /\ \A h \in Handles : h > accepted => resolutions'[h] = <<>>
          /\ (thrown' # thrown =>
                /\ thrown' = ShutdownError
                /\ UNCHANGED <<batchSize, pendingJobs, isShuttingDown, batchTimer,
                               scheduled, accepted, calls, resolutions, shutdowns>>)]_vars

\* submitJob was rejected while the drain batch of shutdown() is still awaited.
C4_Witness ==
    /\ thrown = ShutdownError
    /\ \E c \in PendingCalls : calls[c].trigger = "shutdown"
    /\ accepted < MaxJobs

\* ---- C5 -----------------------------------------------------------------------
\* C5: when a processor call is fulfilled with as many results as the batch
\* has jobs, the job at position i has been resolved with exactly one
\* JobResult: its id, the result at position i, no error.
C5_ResultsPairedByPosition ==
    \A c \in 1..Len(calls) :
        (calls[c].status = "ok" /\ Len(calls[c].results) = Len(calls[c].jobs)) =>
            \A i \in 1..Len(calls[c].jobs) :
                resolutions[calls[c].jobs[i].h] =
                    <<JobResult(calls[c].jobs[i].id, calls[c].results[i], NoError)>>

\* A batch of two jobs fulfilled with two results.
C5_Witness ==
    \E c \in 1..Len(calls) :
        /\ calls[c].status = "ok"
        /\ Len(calls[c].jobs) = 2
        /\ Len(calls[c].results) = 2

\* ---- C6 -----------------------------------------------------------------------
\* C6: when a processor call fails (rejects or throws), every job of its batch
\* has been resolved with exactly one JobResult carrying the error and no
\* result, is not back on the queue and is in no other processor call; the
\* jobs of a call that is still awaited are untouched.
C6_FailureResolvesWholeBatch ==
    /\ \A c \in 1..Len(calls) :
          calls[c].status \in {"failed", "threw"} =>
              \A i \in 1..Len(calls[c].jobs) :
                  LET job == calls[c].jobs[i] IN
                  /\ resolutions[job.h] =
                        <<JobResult(job.id, NoResult, ErrorOf(calls[c].failure))>>
                  /\ job.h \notin HandlesOf(pendingJobs)
                  /\ \A d \in 1..Len(calls) :
                        d # c => job.h \notin HandlesOf(calls[d].jobs)
    /\ \A d \in PendingCalls :
          \A h \in HandlesOf(calls[d].jobs) : ~Resolved(h)

\* A batch of two jobs failed while another call is still awaited.
C6_Witness ==
    \E c \in 1..Len(calls) :
        /\ calls[c].status = "failed"
        /\ Len(calls[c].jobs) = 2
        /\ PendingCalls # {}

\* ---- C7 -----------------------------------------------------------------------
\* The jobs of the first n processor calls, in the order they were dispatched.
RECURSIVE DispatchedJobs(_)
DispatchedJobs(n) == IF n = 0 THEN <<>> ELSE DispatchedJobs(n - 1) \o calls[n].jobs

\* C7: the batches in dispatch order, followed by the queue, list the accepted
\* jobs in submission order, each exactly once (so every batch is a
\* contiguous run of the oldest queued jobs and no job overtakes an older
\* one), and every call received the payloads of its batch in that order.
C7_FifoBatches ==
    LET order == DispatchedJobs(Len(calls)) \o pendingJobs IN
    /\ Len(order) = accepted
    /\ \A k \in 1..Len(order) : order[k].h = k
    /\ \A c \in 1..Len(calls) :
          /\ Len(calls[c].payloads) = Len(calls[c].jobs)
          /\ \A i \in 1..Len(calls[c].jobs) :
                calls[c].payloads[i] = PayloadOf(calls[c].jobs[i].h)

\* Three jobs in two batches: the older two together, then the third.
C7_Witness ==
    /\ Len(calls) = 2
    /\ Len(calls[1].jobs) = 2
    /\ Len(calls[2].jobs) = 1

\* ---- C8 -----------------------------------------------------------------------
\* C8: a submitJob call that makes the queue reach batchSize extracts the
\* batch and invokes the processor within that call: when it returns, the
\* call for the first batchSize queued jobs has been made with trigger
\* "size", it has not settled (unless the processor threw on invocation), the
\* timer is disarmed and no timer remains set.
C8_SizeDispatchInSubmit ==
    [][(accepted' = accepted + 1 /\ Len(pendingJobs) + 1 >= batchSize) =>
          LET queue == Append(pendingJobs, InternalJob(accepted + 1, Job(accepted + 1))) IN
          /\ Len(calls') = Len(calls) + 1
          /\ Last(calls').trigger = "size"
          /\ Last(calls').jobs = SubSeq(queue, 1, batchSize)
          /\ Last(calls').status \in {"pending", "threw"}
          /\ pendingJobs' = SubSeq(queue, batchSize + 1, Len(queue))
          /\ batchTimer' = 0
          /\ scheduled' = {}]_vars

\* A size-triggered batch of two jobs (a timer was armed by the first) is
\* awaited, the timer is disarmed.
C8_Witness ==
    /\ calls # <<>>
    /\ Last(calls).trigger = "size"
    /\ Last(calls).status = "pending"
    /\ Len(Last(calls).jobs) = 2
    /\ batchTimer = 0
    /\ scheduled = {}

\* ---- C9 -----------------------------------------------------------------------
\* The timer that is set is the one armed when the first job now queued was
\* submitted, and fewer than batchSize jobs are queued; every timer-triggered
\* call carried at least one and fewer than batchSize jobs.
TimerServesQueue ==
    /\ \A t \in scheduled :
          /\ t = batchTimer
          /\ pendingJobs # <<>>
          /\ pendingJobs[1].h = t
          /\ Len(pendingJobs) < batchSize
    /\ \A c \in 1..Len(calls) :
          calls[c].trigger = "timer" =>
              (Len(calls[c].jobs) >= 1 /\ Len(calls[c].jobs) < batchSize)

\* C9: after every step TimerServesQueue holds (so no timer is left set once
\* the size threshold has dispatched the jobs it was armed for), and a timer
\* callback dispatches all queued jobs together in one batch.
C9_TimerDispatch ==
    [][/\ TimerServesQueue'
       /\ (Len(calls') = Len(calls) + 1 /\ Last(calls').trigger = "timer") =>
             /\ Last(calls').jobs = pendingJobs
             /\ pendingJobs' = <<>>
             /\ scheduled' = {}]_vars

\* One batch went out by the timer and one by the size threshold.
C9_Witness ==
    /\ \E c \in 1..Len(calls) : calls[c].trigger = "timer"
    /\ \E c \in 1..Len(calls) : calls[c].trigger = "size" /\ Len(calls[c].jobs) = 2

\* ---- C10 ----------------------------------------------------------------------
CeilDiv(n, b) == (n + b - 1) \div b

NoTimerFired == \A c \in 1..Len(calls) : calls[c].trigger # "timer"

\* C10: after N submissions with no timer callback in between and shutdown(),
\* the processor has been invoked ceil(N / batchSize) times; every invocation
\* but the last received batchSize payloads and the last one received
\* N mod batchSize payloads when that is not zero (batchSize otherwise).
C10_BatchCount ==
    (isShuttingDown /\ NoTimerFired) =>
        /\ Len(calls) = CeilDiv(accepted, batchSize)
        /\ \A c \in 1..Len(calls) :
              Len(calls[c].payloads) =
                  IF c < Len(calls) \/ accepted % batchSize = 0
                  THEN batchSize
                  ELSE accepted % batchSize

\* Three jobs with batchSize 2, then shutdown: a full batch and a drain of one.
C10_Witness ==
    /\ isShuttingDown
    /\ NoTimerFired
    /\ accepted = 3
    /\ batchSize = 2
    /\ Len(calls) = 2

\* ---- C11 ----------------------------------------------------------------------
\* C11: when the promise of a shutdown() call that dispatched a drain batch is
\* resolved, the processor call for that batch has ended (returned or
\* failed) and every job of the batch has been resolved.
C11_ShutdownAfterDrainSettled ==
    \A s \in 1..Len(shutdowns) :
        (shutdowns[s].resolved /\ shutdowns[s].waitsFor # 0) =>
            /\ calls[shutdowns[s].waitsFor].status # "pending"
            /\ \A h \in HandlesOf(calls[shutdowns[s].waitsFor].jobs) : Resolved(h)

\* ---- C12 ----------------------------------------------------------------------
\* C12: after every step the queue holds fewer than batchSize jobs; every
\* extraction (a new processor call) leaves it empty, and so does every
\* shutdown() call: its single dispatch cycle drains all queued jobs.
C12_ShutdownDrainsAll ==
    [][/\ Len(pendingJobs') < batchSize
       /\ (Len(calls') > Len(calls) =>
             /\ pendingJobs' = <<>>
             /\ Len(Last(calls').jobs) >= Len(pendingJobs))
       /\ (Len(shutdowns') > Len(shutdowns) =>
             /\ pendingJobs' = <<>>
             /\ Len(calls') <= Len(calls) + 1
             /\ (pendingJobs # <<>> => Last(calls').jobs = pendingJobs))]_vars

\* shutdown() was called with two jobs queued and drained both in one call.
C12_Witness ==
    /\ calls # <<>>
    /\ Last(calls).trigger = "shutdown"
    /\ Len(Last(calls).jobs) = 2
    /\ pendingJobs = <<>>

\* ---- C13 ----------------------------------------------------------------------
\* C13: a shutdown() call made after an earlier one has completed completes
\* at once and changes nothing: no processor call, no timer, the queue, the
\* flag, the accepted jobs and their results as they were.
C13_ShutdownIdempotent ==
    [][(/\ Len(shutdowns') > Len(shutdowns)
        /\ \E s \in 1..Len(shutdowns) : shutdowns[s].resolved) =>
          /\ Last(shutdowns').resolved
          /\ Last(shutdowns').waitsFor = 0
          /\ isShuttingDown /\ isShuttingDown'
          /\ batchTimer' = 0
          /\ scheduled' = {}
          /\ UNCHANGED <<pendingJobs, calls, resolutions, accepted, batchTimer,
                         scheduled>>]_vars

\* Two completed shutdown() calls, the first with a drain, and a submitJob
\* rejected after them.
C13_Witness ==
    /\ Len(shutdowns) = 2
    /\ shutdowns[1].waitsFor # 0
    /\ shutdowns[1].resolved
    /\ shutdowns[2].resolved
    /\ thrown = ShutdownError

\* ---- C14 ----------------------------------------------------------------------
\* C14: at most one processor call of the coordinator is awaited at a time.
C14_OneCallInFlight == Cardinality(PendingCalls) <= 1

\* ---- C15 ----------------------------------------------------------------------
\* C15: after every step at most one timer is set, and it is the one the
\* coordinator holds in batchTimer; a timer is set only by a submission made
\* while none is armed, and it is a new timer (one that fired or was cleared
\* is never set again); every dispatch cycle and every shutdown() leave no
\* timer.
C15_OneTimer ==
    [][/\ Cardinality(scheduled') <= 1
       /\ scheduled' = (IF batchTimer' = 0 THEN {} ELSE {batchTimer'})
       /\ \A t \in scheduled' \ scheduled :
             /\ scheduled = {}
             /\ batchTimer = 0
             /\ accepted' = accepted + 1
             /\ t = accepted'
       /\ (Len(calls') > Len(calls) \/ Len(shutdowns') > Len(shutdowns)) =>
             (scheduled' = {} /\ batchTimer' = 0)]_vars

\* A second submission below the threshold was made while the timer of the
\* first was armed.
C15_Witness ==
    /\ Len(pendingJobs) = 2
    /\ batchTimer = pendingJobs[1].h
    /\ scheduled = {batchTimer}

\* ---- C16 ----------------------------------------------------------------------
\* C16: in every state between two events, a timer is armed exactly when the
\* queue is not empty: the armed timer is set in the event loop while jobs
\* are queued, and no timer is armed or set over an empty queue.
C16_TimerIffQueued ==
    /\ (pendingJobs # <<>>) <=> (batchTimer # 0)
    /\ batchTimer # 0 => batchTimer \in scheduled
    /\ pendingJobs = <<>> => scheduled = {}

\* After a batch fired, a new job is queued and a timer is armed again.
C16_Witness ==
    /\ calls # <<>>
    /\ pendingJobs # <<>>
    /\ batchTimer # 0

\* ---- C17 ----------------------------------------------------------------------
\* C17: every processor call received at least one and at most batchSize
\* payloads.
C17_BatchSizeRange ==
    \A c \in 1..Len(calls) :
        /\ Len(calls[c].payloads) >= 1
        /\ Len(calls[c].payloads) <= batchSize

\* A full size-triggered batch and a shutdown drain of a single job.
C17_Witness ==
    /\ \E c \in 1..Len(calls) :
          calls[c].trigger = "size" /\ Len(calls[c].payloads) = batchSize
    /\ \E c \in 1..Len(calls) :
          calls[c].trigger = "shutdown" /\ Len(calls[c].payloads) = 1
    /\ batchSize > 1

\* ---- C18 ----------------------------------------------------------------------
\* C18: whenever a processor call has failed (rejected, or thrown on
\* invocation; with an Error or with another value), every job of its batch
\* holds an error result as its last result, with the Error's message or
\* "Unknown error" for a value that is no Error, and a shutdown() call that
\* awaited the cycle is resolved.
C18_FailuresContained ==
    \A c \in 1..Len(calls) :
        calls[c].status \in {"failed", "threw"} =>
            /\ \A i \in 1..Len(calls[c].jobs) :
                  LET res == resolutions[calls[c].jobs[i].h] IN
                  /\ res # <<>>
                  /\ Last(res).result = NoResult
                  /\ Last(res).error = IF calls[c].failure.isError
                                       THEN calls[c].failure.message
                                       ELSE "Unknown error"
            /\ \A s \in 1..Len(shutdowns) :
                  shutdowns[s].waitsFor = c => shutdowns[s].resolved

\* The drain batch of shutdown() was rejected with a value that is no Error,
\* and a size-triggered call threw on invocation.
C18_Witness ==
    /\ \E s \in 1..Len(shutdowns) :
          /\ shutdowns[s].waitsFor # 0
          /\ calls[shutdowns[s].waitsFor].status = "failed"
          /\ ~calls[shutdowns[s].waitsFor].failure.isError
    /\ \E c \in 1..Len(calls) :
          calls[c].trigger = "size" /\ calls[c].status = "threw"

\* ---- C19 ----------------------------------------------------------------------
\* C19: once shutdown() has been called no timer is armed or set in any later
\* state, and the only dispatch cycle started from then on is the one drain
\* cycle of the shutdown() call that set the flag.
C19_NoDispatchAfterShutdown ==
    [][isShuttingDown' =>
          /\ batchTimer' = 0
          /\ scheduled' = {}
          /\ Len(calls') > Len(calls) =>
                /\ ~isShuttingDown
                /\ Len(calls') = Len(calls) + 1
                /\ Last(calls').trigger = "shutdown"
          /\ Cardinality({c \in 1..Len(calls') : calls'[c].trigger = "shutdown"}) <= 1]_vars

\* shutdown() was called while a timer was armed; its drain has ended and a
\* second shutdown() followed.
C19_Witness ==
    /\ Len(shutdowns) = 2
    /\ \E c \in 1..Len(calls) :
          calls[c].trigger = "shutdown" /\ calls[c].status # "pending"

\* ---- C20 ----------------------------------------------------------------------
\* C20: once the processor call for a batch has ended, every job of the batch
\* has been resolved exactly once, whatever the length of the result
\* sequence.
C20_SettledBatchResolvedOnce ==
    \A c \in 1..Len(calls) :
        calls[c].status # "pending" =>
            \A h \in HandlesOf(calls[c].jobs) : Len(resolutions[h]) = 1

====
